---- MODULE Spec2Model ----
(***************************************************************************)
(* Model of the benchmark-metrics scripts:                                 *)
(*   scripts/metrics_server.py        the snapshot server                  *)
(*   scripts/benchmark_to_prometheus.py  discovery, Shape-A decoder,       *)
(*                                       renderer and the ingestion CLI    *)
(*   scripts/push_with_protobuf.py    the Shape-B decoder                  *)
(* Strings are sequences of one-character strings, so that splitting,      *)
(* escaping and formatting are computed character by character.            *)
(***************************************************************************)
EXTENDS Integers, Sequences, FiniteSets, TLC

VARIABLES
    \* ---- metrics_server.py ----
    mpc,              \* position of the main thread of metrics_server.py
    portArg,          \* sys.argv[1] of metrics_server.py
    stdinPayload,     \* what standard input holds
    metrics,          \* the main thread's local `metrics`
    srvExit,          \* exit code of the server process, -1 while it runs
    metrics_content,  \* the cell the handler class closes over
    server,           \* "none" | "serving" | "stopped"  (serve_forever thread)
    shutdown_request, \* HTTPServer's shutdown flag
    conns,            \* connection id -> connection state
    backlog,          \* connected, not yet accepted connections, oldest first
    cur,              \* the connection the serving thread is handling, 0 if none
    replaced,         \* whether replaceSnapshot was ever called
    faults,           \* number of write failures so far
    inFlightAtStop,   \* the connections being handled when shutdown() was called
    \* ---- benchmark_to_prometheus.py and push_to_grafana.py, main ----
    ipc,              \* position of main()
    script,           \* which of the two ingestion scripts runs
    argv,             \* sys.argv[1:]
    rootExists,       \* whether the directory named on the command line exists
    tree,             \* the matching files below it, in rglob order
    benchmark_files,  \* main's `benchmark_files`
    fileIdx,          \* number of files the loop has gone through
    all_results,      \* main's `all_results`
    git,              \* [commit, branch] from get_git_commit / get_git_branch
    prometheus_metrics, \* main's `prometheus_metrics`
    stdout,           \* what was printed to standard output, in order
    stderr,           \* what was printed to standard error, in order
    cliExit,          \* exit code of the ingestion process, -1 while it runs
    \* ---- the decoders and the renderer applied as functions ----
    fnIn,             \* the argument
    fnMeta,           \* [commit, branch] for the renderer
    fnOut,            \* the result
    fnDone            \* which function produced fnOut, "none" before

mainVars == <<mpc, portArg, stdinPayload, metrics, srvExit>>
srvVars == <<mainVars, metrics_content, server, shutdown_request, conns,
             backlog, cur, replaced, faults, inFlightAtStop>>
cliVars == <<ipc, script, argv, rootExists, tree, benchmark_files, fileIdx, all_results,
             git, prometheus_metrics, stdout, stderr, cliExit>>
fnVars == <<fnIn, fnMeta, fnOut, fnDone>>
vars == <<srvVars, cliVars, fnVars>>

\* ------------------------------------------------------------------------
\* Bounds of the server model
\* ------------------------------------------------------------------------
MaxConns == 2
MaxFaults == 2

ConnIds == 1..MaxConns

\* ------------------------------------------------------------------------
\* Strings
\* ------------------------------------------------------------------------
Quote == "\""
Backslash == "\\"

SnapshotA == <<"a", " ", "1">>
SnapshotB == <<"b", " ", "2">>
Snapshots == {SnapshotA, SnapshotB}

MetricsPath == "/metrics"
Paths == {"/metrics", "/metrics/"}

\* ------------------------------------------------------------------------
\* What is written to a connection: a sequence of tokens
\* ------------------------------------------------------------------------
Tok(k, s, n) == [k |-> k, s |-> s, n |-> n]
\* send_response(code): the status line, then the Server and Date headers
StatusLine(code) == <<Tok("status", "", code), Tok("header", "Server/Date", 0)>>
ContentTypeHeader == Tok("header", "Content-Type: text/plain; version=0.0.4", 0)
EndHeaders == Tok("end", "", 0)
BodyByte(ch) == Tok("body", ch, 0)
ErrorBody == Tok("body", "Error: e", 0)

\* str.encode('utf-8') of a snapshot: its bytes, in order
Encode(content) == content

Prefix(s, k) == SubSeq(s, 1, k)

\* ------------------------------------------------------------------------
\* The handler class (create_metrics_handler)
\* ------------------------------------------------------------------------
NewConn ==
    [st |-> "idle", path |-> "/", pc |-> "none", hdrbuf |-> <<>>,
     content |-> <<>>, sent |-> 0, wire |-> <<>>, failed |-> FALSE,
     crashed |-> FALSE, held |-> {}]

\* `self.path == '/metrics'`
IsMetricsPath_loose(path) == path \in {"/metrics", "/metrics/"}
IsMetricsPath(path) == path = MetricsPath

\* The headers do_GET queues for a 200: send_response, send_header, end_headers
Headers200 == StatusLine(200) \o <<ContentTypeHeader, EndHeaders>>

\* The headers do_GET queues for a 404
Headers404 == StatusLine(404) \o <<EndHeaders>>

\* The headers the except branch queues
Headers500 == StatusLine(500) \o <<EndHeaders>>

\* The bytes wfile.write(...) of line 18 sends: the value the expression
\* metrics_content.encode('utf-8') had when it was evaluated, once.
ChunkSource_shared(c) == Encode(metrics_content)
ChunkSource(c) == conns[c].content

\* The body of a 404
NotFoundBody == <<>>

Handling(c) == cur = c /\ conns[c].st = "handling"

\* A client connects and sends "GET <path>".  Connection ids are given out
\* in order: they only name the connections.
ClientConnect(c) ==
    /\ server = "serving"
    /\ conns[c].st = "idle"
    /\ \A d \in ConnIds : d < c => conns[d].st # "idle"
    /\ \E p \in Paths :
         conns' = [conns EXCEPT ![c].st = "queued", ![c].path = p]
    /\ backlog' = Append(backlog, c)
    /\ UNCHANGED <<cliVars, fnVars, mainVars, metrics_content,
                   server, shutdown_request, inFlightAtStop, cur, replaced, faults>>

\* serve_forever: the single serving thread takes the next connection when it
\* handles none and no shutdown was requested.
Accept ==
    /\ server = "serving"
    /\ ~shutdown_request
    /\ cur = 0
    /\ backlog # <<>>
    /\ LET c == Head(backlog) IN
         /\ cur' = c
         /\ conns' = [conns EXCEPT ![c].st = "handling", ![c].pc = "do_GET",
                                   ![c].held = IF conns[c].path = MetricsPath
                                               THEN {metrics_content} ELSE {}]
    /\ backlog' = Tail(backlog)
    /\ UNCHANGED <<cliVars, fnVars, mainVars, metrics_content,
                   server, shutdown_request, inFlightAtStop, replaced, faults>>

\* flush_headers: wfile.write of the queued headers. On success the queue is
\* emptied; on failure some proper prefix reached the wire and the queue is
\* kept (it is cleared only after the write returns).
FlushOk(c, buf, nextpc) ==
    /\ conns' = [conns EXCEPT ![c].wire = @ \o buf, ![c].hdrbuf = <<>>,
                              ![c].pc = nextpc]
    /\ UNCHANGED faults

FlushFail(c, buf, nextpc, inTry) ==
    /\ faults < MaxFaults
    /\ faults' = faults + 1
    /\ \E k \in 0..(Len(buf) - 1) :
         conns' = [conns EXCEPT ![c].wire = @ \o Prefix(buf, k),
                                ![c].hdrbuf = buf,
                                ![c].pc = nextpc,
                                ![c].failed = IF inTry THEN TRUE ELSE @,
                                ![c].crashed = IF inTry THEN @ ELSE TRUE]

\* do_GET, lines 13-17: the /metrics branch queues the 200 headers and
\* end_headers() flushes them.
DoGetSendHeaders(c) ==
    /\ Handling(c)
    /\ conns[c].pc = "do_GET"
    /\ IsMetricsPath(conns[c].path)
    /\ LET buf == conns[c].hdrbuf \o Headers200 IN
         \/ FlushOk(c, buf, "read")
         \/ FlushFail(c, buf, "except", TRUE)
    /\ UNCHANGED <<cliVars, fnVars, mainVars, metrics_content,
                   server, shutdown_request, inFlightAtStop, backlog, cur, replaced>>

\* do_GET, line 18, the argument: metrics_content.encode('utf-8') is evaluated.
DoGetReadContent(c) ==
    /\ Handling(c)
    /\ conns[c].pc = "read"
    /\ conns' = [conns EXCEPT ![c].content = Encode(metrics_content),
                              ![c].pc = "write"]
    /\ UNCHANGED <<cliVars, fnVars, mainVars, metrics_content,
                   server, shutdown_request, inFlightAtStop, backlog, cur, replaced, faults>>

\* do_GET, line 18, the call: wfile.write sends the bytes, a byte at a time
\* here.
DoGetWriteChunk(c) ==
    /\ Handling(c)
    /\ conns[c].pc = "write"
    /\ conns[c].sent < Len(ChunkSource(c))
    /\ conns' = [conns EXCEPT
                   ![c].wire = Append(@, BodyByte(ChunkSource(c)[conns[c].sent + 1])),
                   ![c].sent = @ + 1]
    /\ UNCHANGED <<cliVars, fnVars, mainVars, metrics_content,
                   server, shutdown_request, inFlightAtStop, backlog, cur, replaced, faults>>

\* do_GET, line 18: the send fails, before any byte or between two bytes.
DoGetWriteFail(c) ==
    /\ Handling(c)
    /\ conns[c].pc = "write"
    /\ conns[c].sent < Len(ChunkSource(c))
    /\ faults < MaxFaults
    /\ faults' = faults + 1
    /\ conns' = [conns EXCEPT ![c].failed = TRUE, ![c].pc = "except"]
    /\ UNCHANGED <<cliVars, fnVars, mainVars, metrics_content,
                   server, shutdown_request, inFlightAtStop, backlog, cur, replaced>>

\* do_GET, line 18 returns: every byte was sent.
DoGetWriteDone(c) ==
    /\ Handling(c)
    /\ conns[c].pc = "write"
    /\ conns[c].sent >= Len(ChunkSource(c))
    /\ conns' = [conns EXCEPT ![c].pc = "finish"]
    /\ UNCHANGED <<cliVars, fnVars, mainVars, metrics_content,
                   server, shutdown_request, inFlightAtStop, backlog, cur, replaced, faults>>

\* do_GET, lines 19-21: the except branch queues a 500 status line behind
\* whatever is still queued and flushes. A failure here leaves do_GET as an
\* exception, which socketserver reports and survives.
DoGetExceptHeaders(c) ==
    /\ Handling(c)
    /\ conns[c].pc = "except"
    /\ LET buf == conns[c].hdrbuf \o Headers500 IN
         \/ FlushOk(c, buf, "except_body")
         \/ FlushFail(c, buf, "finish", FALSE)
    /\ UNCHANGED <<cliVars, fnVars, mainVars, metrics_content,
                   server, shutdown_request, inFlightAtStop, backlog, cur, replaced>>

\* do_GET, line 22: the diagnostic body.
DoGetExceptBody(c) ==
    /\ Handling(c)
    /\ conns[c].pc = "except_body"
    /\ conns' = [conns EXCEPT ![c].wire = Append(@, ErrorBody), ![c].pc = "finish"]
    /\ UNCHANGED <<cliVars, fnVars, mainVars, metrics_content,
                   server, shutdown_request, inFlightAtStop, backlog, cur, replaced, faults>>

\* do_GET, line 22: writing the diagnostic body fails too.
DoGetExceptBodyFail(c) ==
    /\ Handling(c)
    /\ conns[c].pc = "except_body"
    /\ faults < MaxFaults
    /\ faults' = faults + 1
    /\ conns' = [conns EXCEPT ![c].crashed = TRUE, ![c].pc = "finish"]
    /\ UNCHANGED <<cliVars, fnVars, mainVars, metrics_content,
                   server, shutdown_request, inFlightAtStop, backlog, cur, replaced>>

\* do_GET, lines 23-25: any other path.
DoGetNotFound(c) ==
    /\ Handling(c)
    /\ conns[c].pc = "do_GET"
    /\ ~IsMetricsPath(conns[c].path)
    /\ LET buf == conns[c].hdrbuf \o Headers404 IN
         \/ /\ conns' = [conns EXCEPT ![c].wire = @ \o buf \o NotFoundBody,
                                      ![c].hdrbuf = <<>>, ![c].pc = "finish"]
            /\ UNCHANGED faults
         \/ FlushFail(c, buf, "finish", FALSE)
    /\ UNCHANGED <<cliVars, fnVars, mainVars, metrics_content,
                   server, shutdown_request, inFlightAtStop, backlog, cur, replaced>>

\* The request is over (normally or by an exception out of do_GET): the
\* connection is closed, the handler and its locals are gone, and the serving
\* thread is free again.
FinishRequest(c) ==
    /\ Handling(c)
    /\ conns[c].pc = "finish"
    /\ conns' = [conns EXCEPT ![c].st = "closed", ![c].pc = "done",
                              ![c].hdrbuf = <<>>, ![c].content = <<>>,
                              ![c].sent = 0]
    /\ cur' = 0
    /\ UNCHANGED <<cliVars, fnVars, mainVars, metrics_content,
                   server, shutdown_request, inFlightAtStop, backlog, replaced, faults>>

\* replaceSnapshot(newLines): the served content is swapped as one reference.
replaceSnapshot(new) ==
    /\ server = "serving"
    /\ new # metrics_content
    /\ metrics_content' = new
    /\ replaced' = TRUE
    /\ conns' = [c \in ConnIds |->
                   IF conns[c].st = "handling" /\ conns[c].path = MetricsPath
                   THEN [conns[c] EXCEPT !.held = @ \cup {new}]
                   ELSE conns[c]]
    /\ UNCHANGED <<cliVars, fnVars, mainVars,
                   server, shutdown_request, inFlightAtStop, backlog, cur, faults>>

\* ------------------------------------------------------------------------
\* metrics_server.py run as a program (lines 48-72)
\* ------------------------------------------------------------------------
\* no argument (the port is then 9091, as for the argument "9091"), a
\* non-numeric argument, a number that is no port
PortArgs == {"absent", "abc", "70000"}
\* int(sys.argv[1]) raises ValueError on a non-numeric argument
PortParses(a) == a # "abc"
\* HTTPServer(('127.0.0.1', port), ...) raises OverflowError outside 0..65535
PortBinds(a) == a # "70000"

\* line 50: port = int(sys.argv[1]) if len(sys.argv) > 1 else 9091
MainParsePort ==
    /\ mpc = "parse_port"
    /\ IF PortParses(portArg)
       THEN mpc' = "read_stdin" /\ UNCHANGED srvExit
       ELSE mpc' = "exited" /\ srvExit' = 1
    /\ UNCHANGED <<cliVars, fnVars, portArg, stdinPayload, metrics, metrics_content,
                   server, shutdown_request, inFlightAtStop, conns, backlog, cur, replaced, faults>>

\* line 54: metrics = sys.stdin.read()
MainReadStdin ==
    /\ mpc = "read_stdin"
    /\ metrics' = stdinPayload
    /\ mpc' = "check"
    /\ UNCHANGED <<cliVars, fnVars, portArg, stdinPayload, srvExit, metrics_content,
                   server, shutdown_request, inFlightAtStop, conns, backlog, cur, replaced, faults>>

\* What `if not metrics:` (line 56) leads to
EmptyPayloadExit(m) == IF m = <<>> THEN 1 ELSE -1

\* lines 56-58: an empty payload ends the process
MainCheckMetrics ==
    /\ mpc = "check"
    /\ IF EmptyPayloadExit(metrics) # -1
       THEN mpc' = "exited" /\ srvExit' = EmptyPayloadExit(metrics)
       ELSE mpc' = "start" /\ UNCHANGED srvExit
    /\ UNCHANGED <<cliVars, fnVars, portArg, stdinPayload, metrics, metrics_content,
                   server, shutdown_request, inFlightAtStop, conns, backlog, cur, replaced, faults>>

\* line 60, start_server (lines 33-46): the handler class closes over the
\* payload, the socket is bound and the serving thread started.
MainStartServer ==
    /\ mpc = "start"
    /\ IF PortBinds(portArg)
       THEN /\ metrics_content' = metrics
            /\ server' = "serving"
            /\ mpc' = "sleep"
            /\ UNCHANGED srvExit
       ELSE /\ mpc' = "exited"
            /\ srvExit' = 1
            /\ UNCHANGED <<metrics_content, server>>
    /\ UNCHANGED <<cliVars, fnVars, portArg, stdinPayload, metrics,
                   shutdown_request, inFlightAtStop, conns, backlog, cur, replaced, faults>>

\* lines 70-72: Ctrl+C in the sleep loop; server.shutdown() asks serve_forever
\* to stop and waits for it.
MainKeyboardInterrupt ==
    /\ mpc = "sleep"
    /\ mpc' = "shutdown"
    /\ shutdown_request' = TRUE
    /\ inFlightAtStop' = {c \in ConnIds : conns[c].st = "handling"}
    /\ UNCHANGED <<cliVars, fnVars, portArg, stdinPayload, metrics, srvExit,
                   metrics_content, server, conns, backlog, cur, replaced, faults>>

\* serve_forever leaves its loop between two requests once shutdown was asked.
ServeForeverExit ==
    /\ server = "serving"
    /\ shutdown_request
    /\ cur = 0
    /\ server' = "stopped"
    /\ UNCHANGED <<cliVars, fnVars, mainVars, metrics_content, shutdown_request, inFlightAtStop,
                   conns, backlog, cur, replaced, faults>>

\* server.shutdown() (line 72) returns once serve_forever has left its loop
ShutdownReturns_nowait(srv) == TRUE
ShutdownReturns(srv) == srv = "stopped"

\* server.shutdown() returns, the main thread ends, and with it the process.
MainExit ==
    /\ mpc = "shutdown"
    /\ ShutdownReturns(server)
    /\ mpc' = "exited"
    /\ srvExit' = 0
    /\ UNCHANGED <<cliVars, fnVars, portArg, stdinPayload, metrics, metrics_content,
                   server, shutdown_request, inFlightAtStop, conns, backlog, cur, replaced, faults>>

\* ------------------------------------------------------------------------
\* JSON values read with dict.get: absent, null, a string or a number
\* ------------------------------------------------------------------------
JV(t, s, n) == [t |-> t, s |-> s, n |-> n]
JMissing == JV("missing", <<>>, 0)
JNull == JV("null", <<>>, 0)
JStr(s) == JV("str", s, 0)
JNum(n) == JV("num", <<>>, n)
\* a JSON array, of which only the length is read
JList(n) == JV("list", <<>>, n)

Unknown == <<"u", "n", "k", "n", "o", "w", "n">>

\* d.get(key, default) for a key that holds a string when present
GetStr(v, default) == IF v.t = "missing" THEN default ELSE v.s

Digits == <<"0", "1", "2", "3", "4", "5", "6", "7", "8", "9">>
IsDigit(ch) == \E i \in 1..10 : Digits[i] = ch
DigitValue(ch) == (CHOOSE i \in 1..10 : Digits[i] = ch) - 1
RECURSIVE DecimalValue(_)
DecimalValue(s) ==
    IF s = <<>> THEN 0
    ELSE 10 * DecimalValue(SubSeq(s, 1, Len(s) - 1)) + DigitValue(s[Len(s)])

\* int(d.get(key, 0)): the default 0 for an absent key, the number itself,
\* the value of a decimal string; ValueError for any other string, TypeError
\* for null or a list.
PyInt(v) ==
    CASE v.t = "missing" -> [ok |-> TRUE, n |-> 0]
      [] v.t = "num" -> [ok |-> TRUE, n |-> v.n]
      [] v.t = "str" /\ v.s # <<>> /\ (\A i \in 1..Len(v.s) : IsDigit(v.s[i]))
            -> [ok |-> TRUE, n |-> DecimalValue(v.s)]
      [] OTHER -> [ok |-> FALSE, n |-> 0]

\* len(time_ns.get('runs', [])): TypeError for a number or null
PyLen(v) ==
    CASE v.t = "missing" -> [ok |-> TRUE, n |-> 0]
      [] v.t = "list" -> [ok |-> TRUE, n |-> v.n]
      [] v.t = "str" -> [ok |-> TRUE, n |-> Len(v.s)]
      [] OTHER -> [ok |-> FALSE, n |-> 0]

\* ------------------------------------------------------------------------
\* Input files.  An entry of `benchmarks` carries the keys either decoder
\* reads; `dict` is FALSE for an entry that is no JSON object.
\*   Shape A: name, className, metrics.timeNs.{minimum,median,maximum,runs},
\*            metrics.allocationCount.{minimum,median,maximum}
\*   Shape B: testName, minTimeNs, ..., iterations
\* A file is [name, kind, model, brandA, device, brand, benchmarks] with kind
\* "dict" (a JSON object), "list" (valid JSON, no object) or "badjson".
\* ------------------------------------------------------------------------
EntryA(name, className, tMin, tMed, tMax, runs, aMin, aMed, aMax) ==
    [dict |-> TRUE, name |-> name, className |-> className,
     tMin |-> tMin, tMed |-> tMed, tMax |-> tMax, runs |-> runs,
     aMin |-> aMin, aMed |-> aMed, aMax |-> aMax,
     testName |-> JMissing, minTimeNs |-> JMissing, medianTimeNs |-> JMissing,
     maxTimeNs |-> JMissing, minAllocationCount |-> JMissing,
     medianAllocationCount |-> JMissing, maxAllocationCount |-> JMissing,
     iterations |-> JMissing]

EntryB(testName, tMin, tMed, tMax, aMin, aMed, aMax, iterations) ==
    [dict |-> TRUE, name |-> JMissing, className |-> JMissing,
     tMin |-> JMissing, tMed |-> JMissing, tMax |-> JMissing, runs |-> JMissing,
     aMin |-> JMissing, aMed |-> JMissing, aMax |-> JMissing,
     testName |-> testName, minTimeNs |-> tMin, medianTimeNs |-> tMed,
     maxTimeNs |-> tMax, minAllocationCount |-> aMin,
     medianAllocationCount |-> aMed, maxAllocationCount |-> aMax,
     iterations |-> iterations]

\* an element of `benchmarks` that is a JSON string, not an object
EntryNoDict == [EntryB(JMissing, JMissing, JMissing, JMissing, JMissing, JMissing,
                       JMissing, JMissing) EXCEPT !.dict = FALSE]

FileA(name, model, brand, benchmarks) ==
    [name |-> name, kind |-> "dict", model |-> model, brandA |-> brand,
     device |-> JMissing, brand |-> JMissing, benchmarks |-> benchmarks]

FileB(name, device, brand, benchmarks) ==
    [name |-> name, kind |-> "dict", model |-> JMissing, brandA |-> JMissing,
     device |-> device, brand |-> brand, benchmarks |-> benchmarks]

BadJsonFile(name) == [FileA(name, JMissing, JMissing, <<>>) EXCEPT !.kind = "badjson"]

\* ------------------------------------------------------------------------
\* parse_raw_benchmark_json (benchmark_to_prometheus.py, lines 50-98)
\* ------------------------------------------------------------------------
\* lines 64-66: full_test_name = f"{class_name}.{test_name}"
FullTestName(class_name, test_name) == class_name \o <<".">> \o test_name

\* lines 63-96, one pass of the loop: the record of one entry, or the
\* exception that ends the function.
DecodeEntryA(b, device, brand) ==
    LET test_name == GetStr(b.name, Unknown)
        class_name == GetStr(b.className, Unknown)
        min_time == PyInt(b.tMin)
        median_time == PyInt(b.tMed)
        max_time == PyInt(b.tMax)
        min_alloc == PyInt(b.aMin)
        median_alloc == PyInt(b.aMed)
        max_alloc == PyInt(b.aMax)
        iterations == PyLen(b.runs)
    IN  [ok |-> /\ b.dict
                /\ min_time.ok /\ median_time.ok /\ max_time.ok
                /\ min_alloc.ok /\ median_alloc.ok /\ max_alloc.ok
                /\ iterations.ok,
         rec |-> [testName |-> FullTestName(class_name, test_name),
                  className |-> class_name,
                  methodName |-> test_name,
                  minTimeNs |-> min_time.n,
                  medianTimeNs |-> median_time.n,
                  maxTimeNs |-> max_time.n,
                  minAllocationCount |-> min_alloc.n,
                  medianAllocationCount |-> median_alloc.n,
                  maxAllocationCount |-> max_alloc.n,
                  iterations |-> iterations.n,
                  device |-> device,
                  brand |-> brand]]

\* the loop of lines 63-96 over benchmarks[1..n]: `results` as far as it was
\* built, and whether the loop ran to its end
RECURSIVE DecodeLoopA(_, _, _, _)
DecodeLoopA(benchmarks, n, device, brand) ==
    IF n = 0 THEN [ok |-> TRUE, results |-> <<>>]
    ELSE LET before == DecodeLoopA(benchmarks, n - 1, device, brand)
             one == DecodeEntryA(benchmarks[n], device, brand)
         IN  IF ~before.ok THEN before
             ELSE IF ~one.ok THEN [ok |-> FALSE, results |-> before.results]
             ELSE [ok |-> TRUE, results |-> Append(before.results, one.rec)]

\* The whole function: [ok, results]; ok = FALSE stands for the exception it
\* raises, and results then holds the local list at that moment.
parse_raw_benchmark_json(f) ==
    IF f.kind # "dict" THEN [ok |-> FALSE, results |-> <<>>]
    ELSE DecodeLoopA(f.benchmarks, Len(f.benchmarks),
                     GetStr(f.model, Unknown), GetStr(f.brandA, Unknown))

\* ------------------------------------------------------------------------
\* push_metrics_json (push_with_protobuf.py, lines 44-58): the names of a
\* Shape-B entry
\* ------------------------------------------------------------------------
DotPositions(s) == {i \in 1..Len(s) : s[i] = "."}
LastDot(s) ==
    IF DotPositions(s) = {} THEN 0
    ELSE CHOOSE i \in DotPositions(s) : \A j \in DotPositions(s) : j <= i

\* test_name.rsplit('.', 1)
RSplitLastDot(s) ==
    IF LastDot(s) = 0 THEN <<s>>
    ELSE <<SubSeq(s, 1, LastDot(s) - 1), SubSeq(s, LastDot(s) + 1, Len(s))>>

\* lines 55-58
NamesB(b) ==
    LET test_name == GetStr(b.testName, Unknown)
        parts == RSplitLastDot(test_name)
    IN  [testName |-> test_name,
         className |-> IF Len(parts) > 1 THEN parts[1] ELSE Unknown,
         methodName |-> IF Len(parts) > 1 THEN parts[2] ELSE test_name]

\* benchmark.get(key, 0) of lines 73-119: the value as it stands, no coercion
GetNum(v) == IF v.t = "missing" THEN 0 ELSE v.n

\* lines 45-47 and 54-58 with the values lines 73-119 read: the record of a
\* Shape-B entry
DecodeEntryB(f, b) ==
    LET names == NamesB(b)
    IN  [testName |-> names.testName,
         className |-> names.className,
         methodName |-> names.methodName,
         minTimeNs |-> GetNum(b.minTimeNs),
         medianTimeNs |-> GetNum(b.medianTimeNs),
         maxTimeNs |-> GetNum(b.maxTimeNs),
         minAllocationCount |-> GetNum(b.minAllocationCount),
         medianAllocationCount |-> GetNum(b.medianAllocationCount),
         maxAllocationCount |-> GetNum(b.maxAllocationCount),
         iterations |-> GetNum(b.iterations),
         device |-> GetStr(f.device, Unknown),
         brand |-> GetStr(f.brand, Unknown)]

\* the loop of line 54 over the file's entries
push_metrics_json_records(f) ==
    [i \in 1..Len(f.benchmarks) |-> DecodeEntryB(f, f.benchmarks[i])]

\* ------------------------------------------------------------------------
\* generate_prometheus_metrics (benchmark_to_prometheus.py, lines 100-129)
\* ------------------------------------------------------------------------
\* s.replace('"', '\\"')
RECURSIVE Escape(_)
Escape_backslashToo(s) ==
    IF s = <<>> THEN <<>>
    ELSE (IF Head(s) = Quote THEN <<Backslash, Quote>>
          ELSE IF Head(s) = Backslash THEN <<Backslash, Backslash>>
          ELSE <<Head(s)>>)
         \o Escape(Tail(s))
Escape(s) ==
    IF s = <<>> THEN <<>>
    ELSE (IF Head(s) = Quote THEN <<Backslash, Quote>> ELSE <<Head(s)>>)
         \o Escape(Tail(s))

\* the value of the device, brand, branch and commit labels: used as it is
Plain(s) == s

\* line 114, the f-string
FormatLabels(test, class, method, branch, device, brand, commit) ==
       <<"t", "e", "s", "t", "=", "\"">> \o test
    \o <<"\"", ",", "c", "l", "a", "s", "s", "=", "\"">> \o class
    \o <<"\"", ",", "m", "e", "t", "h", "o", "d", "=", "\"">> \o method
    \o <<"\"", ",", "b", "r", "a", "n", "c", "h", "=", "\"">> \o branch
    \o <<"\"", ",", "d", "e", "v", "i", "c", "e", "=", "\"">> \o device
    \o <<"\"", ",", "b", "r", "a", "n", "d", "=", "\"">> \o brand
    \o <<"\"", ",", "c", "o", "m", "m", "i", "t", "=", "\"">> \o commit
    \o <<Quote>>

\* lines 104-114: the three names are escaped, the other four values are not
Labels(result, git_commit, branch) ==
    FormatLabels(Escape(result.testName), Escape(result.className),
                 Escape(result.methodName), Plain(branch), Plain(result.device),
                 Plain(result.brand), Plain(git_commit))

StatMin == <<",", "s", "t", "a", "t", "=", "\"", "m", "i", "n", "\"">>
StatMedian == <<",", "s", "t", "a", "t", "=", "\"", "m", "e", "d", "i", "a", "n", "\"">>
StatMax == <<",", "s", "t", "a", "t", "=", "\"", "m", "a", "x", "\"">>

\* One exposition line, name{labels} value: the metric name, the text between
\* the braces and the number after them.
Line(metric, labels, value) == [metric |-> metric, labels |-> labels, value |-> value]

\* the three lines of a family with a stat label (lines 117-119, 122-124)
StatLines(metric, labels, lo, mid, hi) ==
    <<Line(metric, labels \o StatMin, lo),
      Line(metric, labels \o StatMedian, mid),
      Line(metric, labels \o StatMax, hi)>>

\* lines 116-119
TimeLines_gateOnMin(result, labels) ==
    IF result.minTimeNs > 0
    THEN StatLines("android_benchmark_time_ns", labels,
                   result.minTimeNs, result.medianTimeNs, result.maxTimeNs)
    ELSE <<>>
TimeLines(result, labels) ==
    IF result.medianTimeNs > 0
    THEN StatLines("android_benchmark_time_ns", labels,
                   result.minTimeNs, result.medianTimeNs, result.maxTimeNs)
    ELSE <<>>

\* lines 121-124
AllocationLines(result, labels) ==
    IF result.medianAllocationCount > 0
    THEN StatLines("android_benchmark_allocations", labels,
                   result.minAllocationCount, result.medianAllocationCount,
                   result.maxAllocationCount)
    ELSE <<>>

\* lines 126-127
IterationLines(result, labels) ==
    IF result.iterations > 0
    THEN <<Line("android_benchmark_iterations", labels, result.iterations)>>
    ELSE <<>>

\* lines 104-127: what one pass of the loop appends
RecordLines(result, git_commit, branch) ==
    LET labels == Labels(result, git_commit, branch)
    IN  TimeLines(result, labels) \o AllocationLines(result, labels)
        \o IterationLines(result, labels)

\* lines 101-129
RECURSIVE generate_prometheus_metrics(_, _, _)
generate_prometheus_metrics_newestFirst(benchmark_results, git_commit, branch) ==
    IF benchmark_results = <<>> THEN <<>>
    ELSE RecordLines(benchmark_results[Len(benchmark_results)], git_commit, branch)
         \o generate_prometheus_metrics(
                SubSeq(benchmark_results, 1, Len(benchmark_results) - 1),
                git_commit, branch)
generate_prometheus_metrics(benchmark_results, git_commit, branch) ==
    IF benchmark_results = <<>> THEN <<>>
    ELSE generate_prometheus_metrics(
             SubSeq(benchmark_results, 1, Len(benchmark_results) - 1),
             git_commit, branch)
         \o RecordLines(benchmark_results[Len(benchmark_results)], git_commit, branch)

\* ------------------------------------------------------------------------
\* main of benchmark_to_prometheus.py (lines 131-168)
\* ------------------------------------------------------------------------
MaxFiles == 2

Msg(k, s, n) == [k |-> k, s |-> s, n |-> n]

\* the run metadata get_git_commit / get_git_branch (lines 12-34) return
Metas == {[commit |-> <<"a", "b", "c", "1", "2", "3", "4">>, branch |-> <<"m", "a", "i", "n">>],
          [commit |-> <<"a", "b", "c", "1", "2", "3", "4">>, branch |-> <<"m", "\"", "n">>]}

ClassCY == <<"c", ".", "Y">>
MethodB == <<"b">>

GoodEntry ==
    EntryA(JStr(MethodB), JStr(ClassCY), JNum(10), JNum(20), JNum(30), JList(3),
           JNum(0), JNum(0), JNum(0))
AllocEntry ==
    EntryA(JStr(<<"b", "2">>), JStr(ClassCY), JNum(0), JNum(0), JNum(0), JMissing,
           JNum(1), JNum(2), JNum(3))
NonNumericEntry ==
    EntryA(JStr(<<"b", "3">>), JStr(ClassCY), JNum(10), JStr(<<"f", "a", "s", "t">>), JNum(30), JList(3),
           JNum(0), JNum(0), JNum(0))
FullEntry ==
    EntryA(JStr(<<"b", "4">>), JStr(ClassCY), JNum(10), JNum(20), JNum(30), JList(3),
           JNum(1), JNum(2), JNum(3))
FlatEntry ==
    EntryB(JStr(<<"c", ".", "Y", ".", "b">>), JNum(10), JNum(20), JNum(30), JNum(1), JNum(2), JNum(3),
           JNum(4))

\* the files a benchmark output tree can hold
IngestFiles ==
    {FileA("one-benchmarkData.json", JStr(<<"P", "i", "x", "e", "l">>), JStr(<<"G", "o", "o", "g", "l", "e">>), <<GoodEntry>>),
     FileA("two-benchmarkData.json", JMissing, JMissing, <<AllocEntry, FullEntry>>),
     FileA("none-benchmarkData.json", JStr(<<"P", "i", "x", "e", "l">>), JStr(<<"G", "o", "o", "g", "l", "e">>), <<>>),
     FileA("half-benchmarkData.json", JStr(<<"P", "i", "x", "e", "l">>), JStr(<<"G", "o", "o", "g", "l", "e">>),
           <<GoodEntry, NonNumericEntry, AllocEntry>>),
     BadJsonFile("bad-benchmarkData.json"),
     FileB("flat-benchmarkData.json", JStr(<<"P", "i", "x", "e", "l">>), JStr(<<"G", "o", "o", "g", "l", "e">>), <<FlatEntry>>)}

SeqsUpTo(S, n) == UNION {[1..k -> S] : k \in 0..n}

CliArgvs == {<<>>, <<"out">>, <<"out", "extra">>}

\* the two ingestion scripts; they share the decoder and the renderer and
\* differ in what they print and where
B2P == "benchmark_to_prometheus.py"
P2G == "push_to_grafana.py"
Scripts == {B2P, P2G}

\* benchmark_to_prometheus.py lines 132-137, push_to_grafana.py lines 150-156:
\* the usage text goes to stderr in the first (print(..., file=sys.stderr))
\* and to stdout in the second (print(...) with no file)
MainArgs ==
    /\ ipc = "args"
    /\ IF Len(argv) # 1
       THEN /\ IF script = P2G
               THEN /\ stdout' = stdout \o <<Msg("usage", "", 0), Msg("example", "", 0)>>
                    /\ UNCHANGED stderr
               ELSE /\ stderr' = stderr \o <<Msg("usage", "", 0), Msg("example", "", 0)>>
                    /\ UNCHANGED stdout
            /\ cliExit' = 1
            /\ ipc' = "exited"
       ELSE /\ ipc' = "find"
            /\ stderr' = IF script = P2G
                         THEN Append(stderr, Msg("looking", "out", 0))
                         ELSE stderr
            /\ UNCHANGED <<stdout, cliExit>>
    /\ UNCHANGED <<srvVars, fnVars, script, argv, rootExists, tree, benchmark_files, fileIdx,
                   all_results, git, prometheus_metrics>>

\* find_benchmark_files (benchmark_to_prometheus.py lines 36-48,
\* push_to_grafana.py lines 40-54): [files, what it printed on each channel]
find_benchmark_files(which, exists, below) ==
    IF ~exists
    THEN IF which = P2G
         THEN [files |-> <<>>, out |-> <<Msg("dir_not_found", "out", 0)>>, err |-> <<>>]
         ELSE [files |-> <<>>, out |-> <<>>, err |-> <<Msg("dir_not_found", "out", 0)>>]
    ELSE [files |-> below, out |-> <<>>, err |-> <<>>]

\* line 139 (push_to_grafana.py line 159)
MainFind ==
    /\ ipc = "find"
    /\ LET found == find_benchmark_files(script, rootExists, tree) IN
         /\ benchmark_files' = found.files
         /\ stderr' = stderr \o found.err
         /\ stdout' = stdout \o found.out
    /\ ipc' = "check_files"
    /\ UNCHANGED <<srvVars, fnVars, script, argv, rootExists, tree, fileIdx, all_results,
                   git, prometheus_metrics, cliExit>>

\* lines 141-145
MainCheckFiles ==
    /\ ipc = "check_files"
    /\ IF benchmark_files = <<>>
       THEN /\ stderr' = Append(stderr, Msg("no_files", "", 0))
            /\ cliExit' = 0
            /\ ipc' = "exited"
       ELSE /\ stderr' = Append(stderr, Msg("found", "", Len(benchmark_files)))
            /\ ipc' = "git"
            /\ UNCHANGED cliExit
    /\ UNCHANGED <<srvVars, fnVars, script, argv, rootExists, tree, benchmark_files, fileIdx,
                   all_results, git, prometheus_metrics, stdout>>

\* lines 147-148
MainGitInfo ==
    /\ ipc = "git"
    /\ git' \in Metas
    /\ ipc' = "loop"
    /\ UNCHANGED <<srvVars, fnVars, script, argv, rootExists, tree, benchmark_files, fileIdx,
                   all_results, prometheus_metrics, stdout, stderr, cliExit>>

\* lines 152-156, what one file does to all_results: extended by the file's
\* records when parse_raw_benchmark_json returned, untouched when it raised
ExtendResults_partial(all, parsed) == all \o parsed.results
ExtendResults(all, parsed) == IF parsed.ok THEN all \o parsed.results ELSE all

\* what one file adds to stderr: lines 155-156; push_to_grafana.py lines
\* 170-178 also announce the file, its count, and the traceback
ReportFile(which, f, parsed) ==
    IF which = P2G
    THEN <<Msg("processing", f.name, 0)>>
         \o (IF parsed.ok
             THEN <<Msg("extracted_file", "", Len(parsed.results))>>
             ELSE <<Msg("error_processing", f.name, 0), Msg("traceback", "", 0)>>)
    ELSE IF parsed.ok THEN <<>> ELSE <<Msg("error_processing", f.name, 0)>>

\* lines 151-156, one pass of the loop
MainParseFile ==
    /\ ipc = "loop"
    /\ fileIdx < Len(benchmark_files)
    /\ LET json_file == benchmark_files[fileIdx + 1]
           parsed == parse_raw_benchmark_json(json_file)
       IN  /\ all_results' = ExtendResults(all_results, parsed)
           /\ stderr' = stderr \o ReportFile(script, json_file, parsed)
    /\ fileIdx' = fileIdx + 1
    /\ UNCHANGED <<srvVars, fnVars, script, argv, rootExists, tree, benchmark_files, git,
                   prometheus_metrics, stdout, cliExit, ipc>>

\* lines 158-162, after the loop
MainCheckResults ==
    /\ ipc = "loop"
    /\ fileIdx = Len(benchmark_files)
    /\ IF all_results = <<>>
       THEN /\ stderr' = Append(stderr, Msg("no_results", "", 0))
            /\ cliExit' = 0
            /\ ipc' = "exited"
       ELSE /\ stderr' = Append(stderr, Msg("extracted", "", Len(all_results)))
            /\ ipc' = "generate"
            /\ UNCHANGED cliExit
    /\ UNCHANGED <<srvVars, fnVars, script, argv, rootExists, tree, benchmark_files, fileIdx,
                   all_results, git, prometheus_metrics, stdout>>

\* lines 164-166
MainGenerate ==
    /\ ipc = "generate"
    /\ prometheus_metrics' =
           generate_prometheus_metrics(all_results, git.commit, git.branch)
    /\ stderr' = stderr
           \o (IF script = P2G THEN <<Msg("generating", "", 0)>> ELSE <<>>)
           \o <<Msg("generated", "",
                    Len(generate_prometheus_metrics(all_results, git.commit, git.branch)))>>
    /\ ipc' = "print"
    /\ UNCHANGED <<srvVars, fnVars, script, argv, rootExists, tree, benchmark_files, fileIdx,
                   all_results, git, stdout, cliExit>>

\* print('\n'.join(lines)): the lines, or one empty line for an empty list
JoinedLines(lines) == IF lines = <<>> THEN <<Line("", <<>>, 0)>> ELSE lines

\* push_to_grafana.py lines 198-205: the sample of at most five lines, the
\* count of the rest, and the closing message, all on stderr
SampleReport(lines) ==
    <<Msg("sample_header", "", 0)>>
    \o [k \in 1..(IF Len(lines) > 5 THEN 5 ELSE Len(lines)) |-> Msg("sample", "", k)]
    \o (IF Len(lines) > 5 THEN <<Msg("more", "", Len(lines) - 5)>> ELSE <<>>)
    \o <<Msg("complete", "", 0)>>

\* line 168 (push_to_grafana.py lines 198-207), and the normal end of the
\* process
MainPrint ==
    /\ ipc = "print"
    /\ stderr' = IF script = P2G THEN stderr \o SampleReport(prometheus_metrics) ELSE stderr
    /\ stdout' = stdout \o JoinedLines(prometheus_metrics)
    /\ cliExit' = 0
    /\ ipc' = "exited"
    /\ UNCHANGED <<srvVars, fnVars, script, argv, rootExists, tree, benchmark_files, fileIdx,
                   all_results, git, prometheus_metrics>>

\* ------------------------------------------------------------------------
\* The decoders and the renderer applied to bounded inputs
\* ------------------------------------------------------------------------
MaxEntries == 2
MaxRecords == 2

NumValues == {JMissing, JNum(0), JNum(2), JStr(<<"7">>), JStr(<<"x">>), JNull}

EntriesA ==
    {EntryA(n, c, JNum(1), tMed, JNum(3), runs, JNum(1), aMed, JNum(3)) :
        n \in {JMissing, JStr(MethodB)}, c \in {JMissing, JStr(ClassCY)},
        tMed \in NumValues, aMed \in {JMissing, JNum(2)},
        runs \in {JMissing, JList(3)}}

EntriesB ==
    {EntryB(tn, JNum(1), tMed, JNum(3), JNum(1), aMed, JNum(3), it) :
        tn \in {JMissing, JStr(MethodB), JStr(<<"c", ".", "Y", ".", "b">>), JStr(<<"c", ".">>)},
        tMed \in {JMissing, JNum(0), JNum(2)}, aMed \in {JMissing, JNum(2)},
        it \in {JMissing, JNum(4)}}

DeviceValues == {JMissing, JStr(<<"P", "i", "x", "e", "l">>)}

DecodeInputs ==
    {FileA("a-benchmarkData.json", m, JStr(<<"G", "o", "o", "g", "l", "e">>), bs) :
        m \in DeviceValues, bs \in SeqsUpTo(EntriesA, MaxEntries)}
    \cup
    {FileB("b-benchmarkData.json", d, JStr(<<"G", "o", "o", "g", "l", "e">>), bs) :
        d \in DeviceValues, bs \in SeqsUpTo(EntriesB, MaxEntries)}

ApplyParseRaw ==
    /\ fnDone = "none"
    /\ fnOut' = parse_raw_benchmark_json(fnIn)
    /\ fnDone' = "parse_raw_benchmark_json"
    /\ UNCHANGED <<srvVars, cliVars, fnIn, fnMeta>>

ApplyPushMetricsJson ==
    /\ fnDone = "none"
    /\ fnOut' = [ok |-> TRUE, results |-> push_metrics_json_records(fnIn)]
    /\ fnDone' = "push_metrics_json"
    /\ UNCHANGED <<srvVars, cliVars, fnIn, fnMeta>>

\* the records the renderer is given: records as the Shape-A decoder builds
\* them, with names, devices and numbers from small sets
RenderRecord(class_name, test_name, device, tMed, aMed, iterations) ==
    [testName |-> FullTestName(class_name, test_name),
     className |-> class_name, methodName |-> test_name,
     minTimeNs |-> 10, medianTimeNs |-> tMed, maxTimeNs |-> 30,
     minAllocationCount |-> 1, medianAllocationCount |-> aMed,
     maxAllocationCount |-> 3, iterations |-> iterations,
     device |-> device, brand |-> <<"G", "o", "o", "g", "l", "e">>]

\* context.build.model and context.build.brand (lines 58-59) are whatever
\* strings the file holds: two records of one test whose device and brand
\* differ and hold quotes and commas
BrandSeparator == <<Quote, ",", "b", "r", "a", "n", "d", "=", Quote>>
QuotedBrandRecord ==
    [RenderRecord(ClassCY, MethodB, <<"x">>, 20, 0, 0)
        EXCEPT !.brand = <<"y">> \o BrandSeparator \o <<"z">>]
QuotedDeviceRecord ==
    [RenderRecord(ClassCY, MethodB, <<"x">> \o BrandSeparator \o <<"y">>, 20, 0, 0)
        EXCEPT !.brand = <<"z">>]

RenderRecords ==
    {RenderRecord(c, MethodB, d, tMed, aMed, it) :
        c \in {ClassCY, <<"c", "\"", "Y">>}, d \in {<<"P", "i", "x", "e", "l">>, <<"P", "\"", "x">>},
        tMed \in {-1, 0, 20}, aMed \in {0, 2}, it \in {0, 4}}
    \cup {QuotedBrandRecord, QuotedDeviceRecord}

ApplyGenerate ==
    /\ fnDone = "none"
    /\ fnOut' = generate_prometheus_metrics(fnIn, fnMeta.commit, fnMeta.branch)
    /\ fnDone' = "generate_prometheus_metrics"
    /\ UNCHANGED <<srvVars, cliVars, fnIn, fnMeta>>

\* the escaping of lines 110-112 applied to one label value
MaxLabelLen == 4
LabelChars == {"a", Quote, Backslash}
LabelValues == SeqsUpTo(LabelChars, MaxLabelLen)

ApplyEscape ==
    /\ fnDone = "none"
    /\ fnOut' = Escape(fnIn)
    /\ fnDone' = "escape"
    /\ UNCHANGED <<srvVars, cliVars, fnIn, fnMeta>>

\* ------------------------------------------------------------------------
\* Initial states
\* ------------------------------------------------------------------------
SrvIdle ==
    /\ mpc = "off" /\ portArg = "absent" /\ stdinPayload = <<>> /\ metrics = <<>>
    /\ srvExit = -1 /\ metrics_content = <<>> /\ server = "none"
    /\ shutdown_request = FALSE /\ conns = [c \in ConnIds |-> NewConn]
    /\ backlog = <<>> /\ cur = 0 /\ replaced = FALSE /\ faults = 0
    /\ inFlightAtStop = {}

CliIdle ==
    /\ ipc = "off" /\ script = B2P /\ argv = <<>> /\ rootExists = FALSE /\ tree = <<>>
    /\ benchmark_files = <<>> /\ fileIdx = 0 /\ all_results = <<>>
    /\ git = [commit |-> <<>>, branch |-> <<>>] /\ prometheus_metrics = <<>>
    /\ stdout = <<>> /\ stderr = <<>> /\ cliExit = -1

FnIdle ==
    /\ fnIn = <<>> /\ fnMeta = [commit |-> <<>>, branch |-> <<>>]
    /\ fnOut = <<>> /\ fnDone = "none"

InitServer ==
    /\ mpc = "parse_port"
    /\ portArg \in PortArgs
    /\ stdinPayload \in {<<>>, SnapshotA}
    /\ metrics = <<>>
    /\ srvExit = -1
    /\ metrics_content = <<>>
    /\ server = "none"
    /\ shutdown_request = FALSE
    /\ conns = [c \in ConnIds |-> NewConn]
    /\ backlog = <<>> /\ cur = 0 /\ replaced = FALSE /\ faults = 0
    /\ inFlightAtStop = {}
    /\ CliIdle /\ FnIdle

NextServer ==
    \/ MainParsePort
    \/ MainReadStdin
    \/ MainCheckMetrics
    \/ MainStartServer
    \/ MainKeyboardInterrupt
    \/ ServeForeverExit
    \/ MainExit
    \/ \E c \in ConnIds : ClientConnect(c)
    \/ Accept
    \/ \E c \in ConnIds : DoGetSendHeaders(c)
    \/ \E c \in ConnIds : DoGetReadContent(c)
    \/ \E c \in ConnIds : DoGetWriteChunk(c)
    \/ \E c \in ConnIds : DoGetWriteFail(c)
    \/ \E c \in ConnIds : DoGetWriteDone(c)
    \/ \E c \in ConnIds : DoGetExceptHeaders(c)
    \/ \E c \in ConnIds : DoGetExceptBody(c)
    \/ \E c \in ConnIds : DoGetExceptBodyFail(c)
    \/ \E c \in ConnIds : DoGetNotFound(c)
    \/ \E c \in ConnIds : FinishRequest(c)
    \/ \E new \in Snapshots : replaceSnapshot(new)

SpecServer == InitServer /\ [][NextServer]_vars

\* One step of the handler of connection c (do_GET, lines 12-25)
HandlerStep(c) ==
    \/ DoGetSendHeaders(c)
    \/ DoGetReadContent(c)
    \/ DoGetWriteChunk(c)
    \/ DoGetWriteFail(c)
    \/ DoGetWriteDone(c)
    \/ DoGetExceptHeaders(c)
    \/ DoGetExceptBody(c)
    \/ DoGetExceptBodyFail(c)
    \/ DoGetNotFound(c)
    \/ FinishRequest(c)

\* The server with a stalled peer: the serving thread (line 42) runs whenever
\* it can, and the handler of every connection but the first keeps going;
\* the first connection's client may stop reading, so that its handler stays
\* where it is for as long as the client likes (the sockets have no timeout).
StalledPeer == CHOOSE c \in ConnIds : \A d \in ConnIds : c <= d
SpecServerStalled ==
    /\ InitServer
    /\ [][NextServer]_vars
    /\ WF_vars(Accept)
    /\ \A c \in ConnIds \ {StalledPeer} : WF_vars(HandlerStep(c))

InitIngest ==
    /\ SrvIdle /\ FnIdle
    /\ ipc = "args"
    /\ script \in Scripts
    /\ argv \in CliArgvs
    /\ rootExists \in BOOLEAN
    /\ tree \in SeqsUpTo(IngestFiles, MaxFiles)
    /\ ~rootExists => tree = <<>>
    /\ benchmark_files = <<>> /\ fileIdx = 0 /\ all_results = <<>>
    /\ git = [commit |-> <<>>, branch |-> <<>>] /\ prometheus_metrics = <<>>
    /\ stdout = <<>> /\ stderr = <<>> /\ cliExit = -1

NextIngest ==
    \/ MainArgs
    \/ MainFind
    \/ MainCheckFiles
    \/ MainGitInfo
    \/ MainParseFile
    \/ MainCheckResults
    \/ MainGenerate
    \/ MainPrint

SpecIngest == InitIngest /\ [][NextIngest]_vars

InitDecode ==
    /\ SrvIdle /\ CliIdle
    /\ fnIn \in DecodeInputs
    /\ fnMeta = [commit |-> <<>>, branch |-> <<>>]
    /\ fnOut = <<>> /\ fnDone = "none"

NextDecode ==
    \/ ApplyParseRaw
    \/ ApplyPushMetricsJson

SpecDecode == InitDecode /\ [][NextDecode]_vars

InitRender ==
    /\ SrvIdle /\ CliIdle
    /\ fnIn \in SeqsUpTo(RenderRecords, MaxRecords)
    /\ fnMeta \in Metas
    /\ fnOut = <<>> /\ fnDone = "none"

NextRender == ApplyGenerate

SpecRender == InitRender /\ [][NextRender]_vars

InitEscape ==
    /\ SrvIdle /\ CliIdle
    /\ fnIn \in LabelValues
    /\ fnMeta = [commit |-> <<>>, branch |-> <<>>]
    /\ fnOut = <<>> /\ fnDone = "none"

NextEscape == ApplyEscape

SpecEscape == InitEscape /\ [][NextEscape]_vars

\* ========================================================================
\* Properties
\* ========================================================================

\* ---- what a client reads from a connection ----
EndPositions(w) == {i \in 1..Len(w) : w[i].k = "end"}
FirstEnd(w) ==
    IF EndPositions(w) = {} THEN 0
    ELSE CHOOSE i \in EndPositions(w) : \A j \in EndPositions(w) : i <= j
\* the status of the response: that of the first line of the stream
ObservedStatus(w) == IF w # <<>> /\ w[1].k = "status" THEN w[1].n ELSE 0
\* the headers: what stands before the first blank line
ObservedHeaders(w) == {w[i].s : i \in {j \in 1..FirstEnd(w) : w[j].k = "header"}}
\* the body: everything after the first blank line
ObservedBody(w) == IF FirstEnd(w) = 0 THEN <<>> ELSE SubSeq(w, FirstEnd(w) + 1, Len(w))

BodyOf(snapshot) == [i \in 1..Len(snapshot) |-> BodyByte(snapshot[i])]
IsPrefixOf(p, s) == Len(p) <= Len(s) /\ p = SubSeq(s, 1, Len(p))

\* a request that ended, or is under way, with no write failure
Answered(c) == conns[c].st = "closed" /\ ~conns[c].failed /\ ~conns[c].crashed
Undisturbed(c) == conns[c].st = "handling" /\ ~conns[c].failed /\ ~conns[c].crashed

\* C1: a GET /metrics that runs while replaceSnapshot runs receives, in full,
\* one of the snapshots held while it was handled: the body is never a
\* mixture, a concatenation or a truncation of two snapshots, and while it is
\* being written it is a prefix of one single held snapshot.
C1_SnapshotSeenWhole ==
    \A c \in ConnIds :
        /\ (Answered(c) /\ conns[c].path = MetricsPath)
              => \E s \in conns[c].held : ObservedBody(conns[c].wire) = BodyOf(s)
        /\ (Undisturbed(c) /\ conns[c].path = MetricsPath)
              => \E s \in conns[c].held :
                     IsPrefixOf(ObservedBody(conns[c].wire), BodyOf(s))

\* A request answered in full with the old snapshot although the replacement
\* happened while it was in flight.
C1_Witness ==
    \E c \in ConnIds :
        /\ Answered(c) /\ conns[c].path = MetricsPath
        /\ conns[c].held = {SnapshotA, SnapshotB}
        /\ metrics_content = SnapshotB
        /\ ObservedBody(conns[c].wire) = BodyOf(SnapshotA)

\* C2: a GET of exactly /metrics is answered 200 with Content-Type
\* 'text/plain; version=0.0.4' and the whole current snapshot as its body; a
\* GET of any other path is answered 404 with an empty body.
C2_RouteAndResponse ==
    \A c \in ConnIds : Answered(c) =>
        IF conns[c].path = "/metrics"
        THEN /\ ObservedStatus(conns[c].wire) = 200
             /\ "Content-Type: text/plain; version=0.0.4" \in ObservedHeaders(conns[c].wire)
             /\ \E s \in conns[c].held : ObservedBody(conns[c].wire) = BodyOf(s)
             /\ ~replaced => ObservedBody(conns[c].wire) = BodyOf(metrics_content)
        ELSE /\ ObservedStatus(conns[c].wire) = 404
             /\ ObservedBody(conns[c].wire) = <<>>

\* Both routes were taken: one connection got the snapshot, the other a 404
\* for a path that only starts like /metrics.
C2_Witness ==
    /\ Answered(1) /\ conns[1].path = "/metrics"
    /\ ObservedStatus(conns[1].wire) = 200
    /\ ObservedBody(conns[1].wire) = BodyOf(SnapshotA)
    /\ Answered(2) /\ conns[2].path = "/metrics/"
    /\ ObservedStatus(conns[2].wire) = 404

\* C3: a GET /metrics whose response write failed (and whose connection still
\* took the error report) is reported with status 500, not 200; the failure
\* does not stop the server, which goes on answering.
C3_WriteFailureIs500 ==
    \A c \in ConnIds :
        (conns[c].st = "closed" /\ conns[c].failed /\ ~conns[c].crashed) =>
            /\ ObservedStatus(conns[c].wire) = 500
            /\ server = "serving" \/ shutdown_request

\* ---- the decoders and the renderer ----
Decoded == fnDone \in {"parse_raw_benchmark_json", "push_metrics_json"}
Rendered == fnDone = "generate_prometheus_metrics"
HasSuffix(s, suf) ==
    Len(suf) <= Len(s) /\ SubSeq(s, Len(s) - Len(suf) + 1, Len(s)) = suf
Family(lines, metric) == SelectSeq(lines, LAMBDA l : l.metric = metric)
TimeGated(recs) == SelectSeq(recs, LAMBDA r : r.medianTimeNs > 0)
AllocGated(recs) == SelectSeq(recs, LAMBDA r : r.medianAllocationCount > 0)
IterGated(recs) == SelectSeq(recs, LAMBDA r : r.iterations > 0)

\* C4: every record either decoder produces has
\* testName = className + "." + methodName, also a Shape-B entry whose
\* testName holds no '.' or is absent.
C4_TestNameIsClassDotMethod ==
    Decoded =>
        \A i \in 1..Len(fnOut.results) :
            fnOut.results[i].testName =
                fnOut.results[i].className \o <<".">> \o fnOut.results[i].methodName

\* the lines of one family are, record by record in input order, the three
\* lines stat=min, median, max carrying the record's <<lo, mid, hi>>
ThreePerGated(lines, gated, values) ==
    /\ Len(lines) = 3 * Len(gated)
    /\ \A k \in 1..Len(gated) :
         LET common == Labels(gated[k], fnMeta.commit, fnMeta.branch) IN
           /\ lines[3 * k - 2].labels = common \o StatMin
           /\ lines[3 * k - 2].value = values[k][1]
           /\ lines[3 * k - 1].labels = common \o StatMedian
           /\ lines[3 * k - 1].value = values[k][2]
           /\ lines[3 * k].labels = common \o StatMax
           /\ lines[3 * k].value = values[k][3]

\* C5: each family is emitted all-or-none under its own gate: three lines
\* min, median, max in that order for a record with medianTimeNs > 0 and none
\* for medianTimeNs = 0, likewise the allocations on medianAllocationCount,
\* one line without a stat label for iterations > 0; nothing else is emitted,
\* so a record with the three gates at zero yields no line.
C5_FamiliesAllOrNone ==
    Rendered =>
        LET T == Family(fnOut, "android_benchmark_time_ns")
            A == Family(fnOut, "android_benchmark_allocations")
            I == Family(fnOut, "android_benchmark_iterations")
            gT == TimeGated(fnIn)
            gA == AllocGated(fnIn)
            gI == IterGated(fnIn)
        IN  /\ ThreePerGated(T, gT,
                   [k \in 1..Len(gT) |->
                       <<gT[k].minTimeNs, gT[k].medianTimeNs, gT[k].maxTimeNs>>])
            /\ ThreePerGated(A, gA,
                   [k \in 1..Len(gA) |->
                       <<gA[k].minAllocationCount, gA[k].medianAllocationCount,
                         gA[k].maxAllocationCount>>])
            /\ Len(I) = Len(gI)
            /\ \A k \in 1..Len(gI) :
                 /\ I[k].value = gI[k].iterations
                 /\ ~HasSuffix(I[k].labels, StatMin)
                 /\ ~HasSuffix(I[k].labels, StatMedian)
                 /\ ~HasSuffix(I[k].labels, StatMax)
                 /\ HasSuffix(I[k].labels, fnMeta.commit \o <<Quote>>)
            /\ Len(fnOut) = Len(T) + Len(A) + Len(I)

\* A batch of a record with no timing and no iterations but allocations, and
\* a record with all three gates at zero: exactly the three allocation lines.
C5_Witness ==
    /\ Rendered
    /\ Len(fnIn) = 2
    /\ fnIn[1].medianTimeNs = 0 /\ fnIn[1].medianAllocationCount > 0
    /\ fnIn[1].iterations = 0
    /\ fnIn[2].medianTimeNs = 0 /\ fnIn[2].medianAllocationCount = 0
    /\ fnIn[2].iterations = 0
    /\ Len(fnOut) = 3
    /\ fnOut[2].metric = "android_benchmark_allocations"

\* the labels of a record with each of the seven values escaped
EscapedLabels(r, meta) ==
    FormatLabels(Escape(r.testName), Escape(r.className), Escape(r.methodName),
                 Escape(meta.branch), Escape(r.device), Escape(r.brand),
                 Escape(meta.commit))

\* C6: in every rendered line each of the seven label values test, class,
\* method, branch, device, brand and commit is double-quote-escaped.
C6_SevenLabelValuesEscaped ==
    Rendered =>
        \A i \in 1..Len(fnOut) :
            \E k \in 1..Len(fnIn) :
                IsPrefixOf(EscapedLabels(fnIn[k], fnMeta), fnOut[i].labels)

\* ---- the ingestion run ----
InLoopOrAfter == ipc \in {"loop", "generate", "print"} \/ (ipc = "exited" /\ fileIdx > 0)
AfterLoop == ipc \in {"generate", "print"} \/ (ipc = "exited" /\ benchmark_files # <<>>)

RECURSIVE RecordsOfDecoded(_, _)
RecordsOfDecoded(files, n) ==
    IF n = 0 THEN <<>>
    ELSE RecordsOfDecoded(files, n - 1)
         \o (IF parse_raw_benchmark_json(files[n]).ok
             THEN parse_raw_benchmark_json(files[n]).results ELSE <<>>)

NamesOfFailed(files, n) ==
    LET failed == SelectSeq(SubSeq(files, 1, n),
                            LAMBDA f : ~parse_raw_benchmark_json(f).ok)
    IN  [i \in 1..Len(failed) |-> failed[i].name]

ReportedErrors ==
    LET errs == SelectSeq(stderr, LAMBDA m : m.k = "error_processing")
    IN  [i \in 1..Len(errs) |-> errs[i].s]

\* C7: a file that fails to decode is reported with its name, the files after
\* it are still processed, and the accumulated records are exactly those of
\* the files that decoded, in order: none of a failed file, none lost.
C7_FailedFileSkipped ==
    /\ InLoopOrAfter =>
         /\ all_results = RecordsOfDecoded(benchmark_files, fileIdx)
         /\ ReportedErrors = NamesOfFailed(benchmark_files, fileIdx)
    /\ AfterLoop => fileIdx = Len(benchmark_files)

\* A file whose second entry fails, after a record was already built from its
\* first, followed by a valid file: the run ends with the valid file's record.
C7_Witness ==
    /\ ipc = "exited" /\ cliExit = 0
    /\ Len(benchmark_files) = 2
    /\ benchmark_files[1].name = "half-benchmarkData.json"
    /\ benchmark_files[2].name = "one-benchmarkData.json"
    /\ Len(all_results) = 1
    /\ ReportedErrors = <<"half-benchmarkData.json">>
    /\ stdout # <<>>

\* what "non-numeric or missing becomes 0" asks of a numeric field
CoercedOrZero(v) ==
    IF v.t = "num" THEN v.n
    ELSE IF v.t = "str" /\ v.s # <<>> /\ (\A i \in 1..Len(v.s) : IsDigit(v.s[i]))
    THEN DecimalValue(v.s) ELSE 0

\* C8: decoding a structurally valid file never raises, and every numeric
\* field of every record is the integer value of the input field, 0 when that
\* is missing or non-numeric.
C8_NumericCoercionNeverRaises ==
    (fnDone = "parse_raw_benchmark_json" /\ fnIn.kind = "dict"
        /\ \A i \in 1..Len(fnIn.benchmarks) : fnIn.benchmarks[i].dict) =>
        /\ fnOut.ok
        /\ Len(fnOut.results) = Len(fnIn.benchmarks)
        /\ \A i \in 1..Len(fnOut.results) :
             /\ fnOut.results[i].minTimeNs = CoercedOrZero(fnIn.benchmarks[i].tMin)
             /\ fnOut.results[i].medianTimeNs = CoercedOrZero(fnIn.benchmarks[i].tMed)
             /\ fnOut.results[i].maxTimeNs = CoercedOrZero(fnIn.benchmarks[i].tMax)
             /\ fnOut.results[i].minAllocationCount = CoercedOrZero(fnIn.benchmarks[i].aMin)
             /\ fnOut.results[i].medianAllocationCount = CoercedOrZero(fnIn.benchmarks[i].aMed)
             /\ fnOut.results[i].maxAllocationCount = CoercedOrZero(fnIn.benchmarks[i].aMax)

\* a file of flat entries with top-level device and brand
IsShapeB(f) ==
    /\ f.kind = "dict" /\ f.device.t = "str" /\ f.brand.t = "str"
    /\ f.benchmarks # <<>>
    /\ \A i \in 1..Len(f.benchmarks) :
         f.benchmarks[i].dict /\ f.benchmarks[i].testName.t = "str"

\* C9: the ingestion run decodes a Shape-B file by its structure: every
\* record it produces carries the entry's testName and numbers and the file's
\* device and brand.
C9_ShapeBDecodedByStructure ==
    (AfterLoop /\ Len(benchmark_files) = 1 /\ IsShapeB(benchmark_files[1])) =>
        LET f == benchmark_files[1] IN
          /\ Len(all_results) = Len(f.benchmarks)
          /\ \A i \in 1..Len(all_results) :
               /\ all_results[i].testName = f.benchmarks[i].testName.s
               /\ all_results[i].minTimeNs = f.benchmarks[i].minTimeNs.n
               /\ all_results[i].medianTimeNs = f.benchmarks[i].medianTimeNs.n
               /\ all_results[i].maxTimeNs = f.benchmarks[i].maxTimeNs.n
               /\ all_results[i].medianAllocationCount = f.benchmarks[i].medianAllocationCount.n
               /\ all_results[i].iterations = f.benchmarks[i].iterations.n
               /\ all_results[i].device = f.device.s
               /\ all_results[i].brand = f.brand.s

\* C10: the server process and the ingestion process end with a failure exit
\* code only for usage errors (a missing or surplus argument, an invalid
\* port); an empty payload ends with 0 or leaves the process running.
C10_FailureExitOnlyForUsage ==
    /\ srvExit = 1 => (~PortParses(portArg) \/ ~PortBinds(portArg))
    /\ cliExit = 1 => Len(argv) # 1

\* ---- the two output channels of an ingestion run ----
\* a rendered metric line, or the empty line print() writes for an empty list
IsMetricLine(x) == "metric" \in DOMAIN x
IsDiagnostic(x) == "k" \in DOMAIN x

\* C11: on every path of an ingestion run the diagnostics go to stderr only:
\* standard output holds nothing but the rendered metric lines, and standard
\* error holds no metric line.
C11_DiagnosticsOnlyOnStderr ==
    /\ \A i \in 1..Len(stdout) :
         /\ IsMetricLine(stdout[i])
         /\ prometheus_metrics # <<>> =>
                \E j \in 1..Len(prometheus_metrics) : stdout[i] = prometheus_metrics[j]
    /\ \A i \in 1..Len(stderr) : IsDiagnostic(stderr[i])

\* C12: connections are handled independently: a request waiting on a
\* connection is answered (unless the server is being stopped) whatever the
\* other connections do, also while another connection's response is
\* stalled half-way.
C12_ConnectionsIndependent ==
    \A c \in ConnIds \ {StalledPeer} :
        (conns[c].st = "queued") ~> (conns[c].st = "closed" \/ shutdown_request)

\* C13: once the stop signal has been passed to the server no connection is
\* taken up any more, and when the process ends every response that was
\* being written at that moment has run to its end: its handler returned and
\* its connection was closed by the server.
C13_GracefulStop ==
    [][/\ shutdown_request =>
            \A c \in ConnIds : conns'[c].st = "handling" => conns[c].st = "handling"
       /\ mpc' = "exited" =>
            /\ \A c \in ConnIds : conns'[c].st # "handling"
            /\ \A c \in inFlightAtStop' :
                 conns'[c].st = "closed" /\ conns'[c].pc = "done"]_vars

\* The signal came while a GET /metrics was being answered and another
\* connection waited; the process has ended, the first response is whole and
\* the second connection was never taken up.
C13_Witness ==
    /\ mpc = "exited" /\ srvExit = 0
    /\ inFlightAtStop = {1}
    /\ conns[1].path = MetricsPath /\ ~conns[1].failed
    /\ ObservedBody(conns[1].wire) = BodyOf(SnapshotA)
    /\ conns[2].st = "queued"

\* ---- order of the rendered output ----
\* the lines of one record rendered alone, under the run's commit and branch
RenderedAlone(r) == generate_prometheus_metrics(<<r>>, git.commit, git.branch)

RECURSIVE ConcatAlone(_)
ConcatAlone(recs) ==
    IF recs = <<>> THEN <<>>
    ELSE RenderedAlone(Head(recs)) \o ConcatAlone(Tail(recs))

\* the method names of the entries of the files that decode, file by file in
\* the order the files were found, entry by entry in the order of the file
RECURSIVE EntryNamesInOrder(_)
EntryNamesInOrder(files) ==
    IF files = <<>> THEN <<>>
    ELSE (IF parse_raw_benchmark_json(Head(files)).ok
          THEN [i \in 1..Len(Head(files).benchmarks) |->
                   GetStr(Head(files).benchmarks[i].name, Unknown)]
          ELSE <<>>)
         \o EntryNamesInOrder(Tail(files))

FamilyRank(l) ==
    CASE l.metric = "android_benchmark_time_ns" -> 1
      [] l.metric = "android_benchmark_allocations" -> 2
      [] l.metric = "android_benchmark_iterations" -> 3
      [] OTHER -> 0

\* time, then allocations, then iterations; min, median, max in a family
FamiliesInOrder(lines) ==
    /\ \A i, j \in 1..Len(lines) :
         i < j => /\ FamilyRank(lines[i]) >= 1
                  /\ FamilyRank(lines[i]) <= FamilyRank(lines[j])
    /\ \A m \in {"android_benchmark_time_ns", "android_benchmark_allocations"} :
         LET F == Family(lines, m) IN
           F # <<>> => /\ Len(F) = 3
                       /\ HasSuffix(F[1].labels, StatMin)
                       /\ HasSuffix(F[2].labels, StatMedian)
                       /\ HasSuffix(F[3].labels, StatMax)
    /\ Len(Family(lines, "android_benchmark_iterations")) <= 1

AfterGenerate == ipc = "print" \/ (ipc = "exited" /\ cliExit = 0 /\ all_results # <<>>)

\* C14: the output follows insertion order only: the records are those of
\* the files in the order they were found and of the entries in the order of
\* each file, the rendered lines are the concatenation of each record's lines
\* rendered alone (so contiguous, nothing sorted, merged or dropped), within a
\* record time comes before allocations before iterations with min, median,
\* max, and what is printed is that sequence.
C14_InsertionOrderOnly ==
    AfterGenerate =>
        /\ [i \in 1..Len(all_results) |-> all_results[i].methodName]
               = EntryNamesInOrder(benchmark_files)
        /\ prometheus_metrics = ConcatAlone(all_results)
        /\ \A i \in 1..Len(all_results) : FamiliesInOrder(RenderedAlone(all_results[i]))
        /\ (ipc = "exited" /\ prometheus_metrics # <<>>) => stdout = prometheus_metrics

\* Two files, the second found holding the record that sorts first: the
\* fourteen lines are printed with the first file's two records first, the
\* allocation-only record ahead of the record with all three families.
C14_Witness ==
    /\ ipc = "exited" /\ script = B2P
    /\ Len(benchmark_files) = 2
    /\ benchmark_files[1].name = "two-benchmarkData.json"
    /\ benchmark_files[2].name = "one-benchmarkData.json"
    /\ Len(stdout) = 14
    /\ stdout[1].metric = "android_benchmark_allocations"
    /\ stdout[4].metric = "android_benchmark_time_ns"
    /\ stdout[11].metric = "android_benchmark_time_ns"

\* ---- escaping of a label value ----
QuoteCount(s) == Cardinality({i \in 1..Len(s) : s[i] = Quote})

\* replacing every backslash-quote pair by a quote, left to right
RECURSIVE Unescape(_)
Unescape(s) ==
    IF s = <<>> THEN <<>>
    ELSE IF Len(s) >= 2 /\ s[1] = Backslash /\ s[2] = Quote
         THEN <<Quote>> \o Unescape(SubSeq(s, 3, Len(s)))
         ELSE <<Head(s)>> \o Unescape(Tail(s))

Escaped == fnDone = "escape"

\* C15: escaping leaves a value without a double quote as it is, puts one
\* backslash in front of every double quote and changes nothing else, and
\* replacing every backslash-quote pair of the result by a quote gives the
\* value back, also when the value holds backslashes.
C15_EscapeRoundTrip ==
    Escaped =>
        /\ QuoteCount(fnIn) = 0 => fnOut = fnIn
        /\ Len(fnOut) = Len(fnIn) + QuoteCount(fnIn)
        /\ QuoteCount(fnOut) = QuoteCount(fnIn)
        /\ \A i \in 1..Len(fnOut) :
             fnOut[i] = Quote => (i > 1 /\ fnOut[i - 1] = Backslash)
        /\ Unescape(fnOut) = fnIn

\* A value with a backslash right before a quote, and a second quote.
C15_Witness ==
    /\ Escaped
    /\ fnIn = <<Backslash, Quote, "a", Quote>>
    /\ fnOut = <<Backslash, Backslash, Quote, "a", Backslash, Quote>>

\* ---- uniqueness of the rendered series ----
KeyOf(r) == <<r.testName, r.device, r.brand>>
PairwiseDistinctKeys(recs) ==
    \A i, j \in 1..Len(recs) : i # j => KeyOf(recs[i]) # KeyOf(recs[j])

\* the number of lines a record is due under its three gates
LinesDue(r) ==
    (IF r.medianTimeNs > 0 THEN 3 ELSE 0)
    + (IF r.medianAllocationCount > 0 THEN 3 ELSE 0)
    + (IF r.iterations > 0 THEN 1 ELSE 0)
RECURSIVE TotalLinesDue(_)
TotalLinesDue(recs) ==
    IF recs = <<>> THEN 0 ELSE LinesDue(Head(recs)) + TotalLinesDue(Tail(recs))

\* C16: records pairwise distinct in (testName, device, brand) give lines of
\* which no two have the same metric name and the same label text; and the
\* renderer never merges or drops a line, so every record, repeated or not,
\* gets all the lines its gates call for.
C16_DistinctRecordsDistinctSeries ==
    Rendered =>
        /\ Len(fnOut) = TotalLinesDue(fnIn)
        /\ PairwiseDistinctKeys(fnIn) =>
               \A a, b \in 1..Len(fnOut) :
                   a # b => <<fnOut[a].metric, fnOut[a].labels>>
                               # <<fnOut[b].metric, fnOut[b].labels>>

====
